---- MODULE Spec2Model ----
(***************************************************************************)
(* Daily sermon emailer: configuration loading, the scheduling loop, the   *)
(* random sermon selector, the channel video source and the notification   *)
(* dispatcher, modelled from config.py, sermon_emailer.py,                 *)
(* youtube_service.py and email_service.py.                                *)
(*                                                                         *)
(* Encoding.  A Python value that may be None is a sequence of length at   *)
(* most one: None is <<>>, the value x is <<x>>.  A Python string whose    *)
(* characters matter (an environment value) is a sequence of one-character *)
(* strings.  A calendar date is the number of its day.                     *)
(***************************************************************************)
EXTENDS Integers, Sequences, FiniteSets, TLC

\* ---------------------------------------------------------------- bounds
\* Last calendar day the wall clock reaches.
MaxDay == 2
\* ------------------------------------------------------ program constants
\* email_service.py:47, the provider's "accepted" status.
Accepted == 202
\* youtube_service.py:17, the default of max_results.
DefaultMaxResults == 50
\* youtube_service.py:49, the provider's page-size limit.
PageLimit == 50

\* ------------------------------------------------------------- encoding
None == <<>>
Some(x) == <<x>>

Min(a, b) == IF a < b THEN a ELSE b

\* The sequences over S of length at most n.
SeqsUpTo(S, n) == UNION {[1..k -> S] : k \in 0..n}

\* list.extend over a sequence of lists.
RECURSIVE Flatten(_)
Flatten(ss) == IF ss = <<>> THEN <<>> ELSE Head(ss) \o Flatten(Tail(ss))

\* The elements of a sequence.
Range(s) == {s[i] : i \in 1..Len(s)}

\* ------------------------------------------------------------ config.py
EnvKeys == {"YOUTUBE_API_KEY", "YOUTUBE_CHANNEL_IDS", "SENDGRID_API_KEY",
            "SENDER_EMAIL", "RECIPIENT_EMAIL", "CHECK_INTERVAL_HOURS"}

\* The values an environment variable takes: unset, empty or set; addresses
\* with and without "@"; intervals that are no integer, non-positive, positive
\* or left to the default.
KeyValues == {None, Some(<<>>), Some(<<"k">>)}
ChannelValues == {None, Some(<<>>), Some(<<"U">>),
                  Some(<<"U", ",", " ", "V">>)}
AddressValues == {None, Some(<<>>), Some(<<"a">>), Some(<<"a", "@", "b">>)}
IntervalValues == {None, Some(<<"x">>), Some(<<"0">>), Some(<<"-", "2">>),
                   Some(<<"2">>)}

ValuesOf(key) ==
    CASE key \in {"YOUTUBE_API_KEY", "SENDGRID_API_KEY"} -> KeyValues
      [] key = "YOUTUBE_CHANNEL_IDS" -> ChannelValues
      [] key \in {"SENDER_EMAIL", "RECIPIENT_EMAIL"} -> AddressValues
      [] key = "CHECK_INTERVAL_HOURS" -> IntervalValues

\* An environment with every setting valid.
ValidEnvironment ==
    [YOUTUBE_API_KEY |-> Some(<<"k">>),
     YOUTUBE_CHANNEL_IDS |-> Some(<<"U">>),
     SENDGRID_API_KEY |-> Some(<<"k">>),
     SENDER_EMAIL |-> Some(<<"a", "@", "b">>),
     RECIPIENT_EMAIL |-> Some(<<"a", "@", "b">>),
     CHECK_INTERVAL_HOURS |-> Some(<<"2">>)]

\* The environments the process is started in: the valid one, and each one
\* that gives one variable another of its values.
Environments ==
    UNION {{[ValidEnvironment EXCEPT ![key] = value] : value \in ValuesOf(key)} :
              key \in EnvKeys}

\* The outcome of a call: a value returned or an exception raised.
Return(v) == [raised |-> FALSE, value |-> v]
Raise == [raised |-> TRUE, value |-> None]

\* os.getenv(key) and os.getenv(key, default).
getenv(env, key) == env[key]
getenv_default(env, key, default) ==
    IF env[key] = None THEN default ELSE env[key][1]

\* Python's `not value` for an optional string.
Falsy(value) == value = None \/ value[1] = <<>>

\* A variant of get_required_env that rejects only an unset variable.
get_required_env_unset_only(env, key) ==
    IF getenv(env, key) = None THEN Raise ELSE Return(getenv(env, key)[1])

\* Config._get_required_env: raises ValueError unless the variable is set to a
\* non-empty string.
get_required_env(env, key) ==
    IF Falsy(getenv(env, key)) THEN Raise ELSE Return(getenv(env, key)[1])

\* str.split(','): the segments between the commas.
RECURSIVE split_comma(_, _)
split_comma(s, cur) ==
    IF s = <<>> THEN <<cur>>
    ELSE IF Head(s) = "," THEN <<cur>> \o split_comma(Tail(s), <<>>)
    ELSE split_comma(Tail(s), Append(cur, Head(s)))

\* str.strip(): leading and trailing blanks removed.
RECURSIVE lstrip(_)
lstrip(s) == IF s # <<>> /\ Head(s) = " " THEN lstrip(Tail(s)) ELSE s
RECURSIVE rstrip(_)
rstrip(s) ==
    IF s # <<>> /\ s[Len(s)] = " " THEN rstrip(SubSeq(s, 1, Len(s) - 1)) ELSE s
strip(s) == rstrip(lstrip(s))

\* Config._get_channel_ids: the stripped comma-separated segments; the format
\* check only logs a warning.
get_channel_ids(env) ==
    LET channel_ids_str == get_required_env(env, "YOUTUBE_CHANNEL_IDS")
    IN  IF channel_ids_str.raised THEN Raise
        ELSE LET parts == split_comma(channel_ids_str.value, <<>>)
                 channel_ids == [i \in 1..Len(parts) |-> strip(parts[i])]
             IN  IF channel_ids = <<>> THEN Raise ELSE Return(channel_ids)

\* int(s) on the literals the environments hold: an optional sign and digits.
Digits == {"0", "1", "2", "3", "4", "5", "6", "7", "8", "9"}
DigitVal(c) == CHOOSE n \in 0..9 : <<"0", "1", "2", "3", "4", "5", "6", "7",
                                     "8", "9">>[n + 1] = c
RECURSIVE digits_value(_, _)
digits_value(s, acc) ==
    IF s = <<>> THEN acc
    ELSE digits_value(Tail(s), 10 * acc + DigitVal(Head(s)))
int(s) ==
    LET t == strip(s)
        neg == t # <<>> /\ Head(t) = "-"
        body == IF t # <<>> /\ Head(t) \in {"-", "+"} THEN Tail(t) ELSE t
    IN  IF body = <<>> \/ \E i \in 1..Len(body) : body[i] \notin Digits
        THEN Raise
        ELSE Return(IF neg THEN 0 - digits_value(body, 0)
                    ELSE digits_value(body, 0))

\* Config.__init__: any missing required variable, or an interval that is no
\* integer literal, raises ValueError.
Config(env) ==
    LET youtube_api_key == get_required_env(env, "YOUTUBE_API_KEY")
        youtube_channel_ids == get_channel_ids(env)
        sendgrid_api_key == get_required_env(env, "SENDGRID_API_KEY")
        sender_email == get_required_env(env, "SENDER_EMAIL")
        recipient_email == get_required_env(env, "RECIPIENT_EMAIL")
        check_interval_hours ==
            int(getenv_default(env, "CHECK_INTERVAL_HOURS", <<"2", "4">>))
    IN  IF \/ youtube_api_key.raised
           \/ youtube_channel_ids.raised
           \/ sendgrid_api_key.raised
           \/ sender_email.raised
           \/ recipient_email.raised
           \/ check_interval_hours.raised
        THEN Raise
        ELSE Return([youtube_api_key |-> youtube_api_key.value,
                     youtube_channel_ids |-> youtube_channel_ids.value,
                     sendgrid_api_key |-> sendgrid_api_key.value,
                     sender_email |-> sender_email.value,
                     recipient_email |-> recipient_email.value,
                     check_interval_hours |-> check_interval_hours.value])

\* '@' in address.
HasAt(address) == \E i \in 1..Len(address) : address[i] = "@"

\* Config.validate: the assertions on a constructed configuration.
validate(config) ==
    /\ config.youtube_api_key # <<>>
    /\ config.youtube_channel_ids # <<>>
    /\ config.sendgrid_api_key # <<>>
    /\ config.sender_email # <<>>
    /\ config.recipient_email # <<>>
    /\ HasAt(config.sender_email)
    /\ HasAt(config.recipient_email)
    /\ config.check_interval_hours > 0

\* ----------------------------------------------------- youtube_service.py
\* The video identifiers the provider serves.
VideoIds == {"a", "b"}

\* A playlist item as the provider lists it, and the video built from it.
Item(video_id, channel_id) ==
    [videoId |-> video_id, title |-> <<"title", video_id>>,
     channelTitle |-> <<"channel", channel_id>>]
Video(item) ==
    [id |-> item.videoId, title |-> item.title,
     channel_title |-> item.channelTitle]

\* A variant of page_size that always asks for a full page.
page_size_full(max_results, fetched) == PageLimit

\* The number of items one page request asks for.
page_size(max_results, fetched) == Min(PageLimit, max_results - fetched)

\* The pagination loop against a provider that fills every page and gives a
\* next-page token exactly when uploads remain: request pages until max_results
\* videos are held or a page carries no token.
RECURSIVE fetch_pages(_, _, _)
fetch_pages(uploads, videos, max_results) ==
    IF ~(Len(videos) < max_results) THEN videos
    ELSE LET maxResults == page_size(max_results, Len(videos))
             last == Min(Len(uploads), Len(videos) + maxResults)
             items == SubSeq(uploads, Len(videos) + 1, last)
             next_page_token == last < Len(uploads)
             grown == videos \o [i \in 1..Len(items) |-> Video(items[i])]
         IN  IF ~next_page_token THEN grown
             ELSE fetch_pages(uploads, grown, max_results)

\* What the provider answers for one channel during one cycle: the channel does
\* not resolve, a call raises HttpError or another exception, or the channel
\* resolves and lists its uploads.
Playlists == {<<>>, <<"a">>, <<"b">>, <<"a", "b">>}
ChannelResponses ==
    {[status |-> st, uploads |-> <<>>] :
        st \in {"not_found", "http_error", "error"}}
    \cup {[status |-> "ok", uploads |-> u] : u \in Playlists}

\* get_channel_videos inside its try, lines 29-67: the empty list for a channel
\* that does not resolve, the exception of a failing call, else the videos of
\* the uploads playlist, at most max_results.
list_channel_videos(channel_id, max_results, response) ==
    IF response.status \in {"http_error", "error"} THEN Raise
    ELSE IF response.status = "not_found" THEN Return(<<>>)
    ELSE Return(fetch_pages([i \in 1..Len(response.uploads) |->
                                Item(response.uploads[i], channel_id)],
                            <<>>, max_results))

\* A variant of get_channel_videos without its except clauses.
get_channel_videos_uncaught(channel_id, max_results, response) ==
    list_channel_videos(channel_id, max_results, response)

\* YouTubeService.get_channel_videos: both except clauses turn an exception
\* into the empty list.
get_channel_videos(channel_id, max_results, response) ==
    LET listed == list_channel_videos(channel_id, max_results, response)
    IN  IF listed.raised THEN Return(<<>>) ELSE listed

\* ------------------------------------------------------- email_service.py
\* What the provider answers to one send: a status code, or the client raises.
MailResponses ==
    {[raised |-> FALSE, status_code |-> c] : c \in {200, Accepted, 500}}
    \cup {[raised |-> TRUE, status_code |-> 0]}

\* A variant of send_email without its except clause.
send_email_uncaught(response) ==
    IF response.raised THEN Raise
    ELSE Return(response.status_code = Accepted)

\* EmailService.send_email: True on the accepted status, False on any other
\* status and, by the except clause, when building or sending raises.
send_email(response) ==
    IF response.raised THEN Return(FALSE)
    ELSE Return(response.status_code = Accepted)

\* ------------------------------------------------------ sermon_emailer.py
VARIABLES
    env,                \* the process environment
    pc,                 \* "main", "constructed", "loop" or "exit"
    exit_reason,        \* why the process ended
    config,             \* SermonEmailer.config, None before construction
    scheduled,          \* the job is registered with the scheduler
    today,              \* datetime.now().date()
    last_sermon_id,     \* SermonEmailer.last_sermon_id
    last_sermon_date,   \* SermonEmailer.last_sermon_date
    cycle,              \* the latest call of send_daily_sermon
    deliveredOn,        \* the days on which the provider accepted an email
    prevDelivered,      \* the video of the latest accepted email
    richPools,          \* every pool so far held two distinct identifiers
    sel,                \* one call of get_random_sermon on drawn inputs
    fetch               \* one call of get_channel_videos, page by page

procVars == <<env, pc, exit_reason, config, scheduled, today, last_sermon_id,
              last_sermon_date, cycle, deliveredOn, prevDelivered, richPools>>

UrlPrefix == "https://www.youtube.com/watch?v="

\* get_random_sermon, lines 56-60: one fetch per configured channel, all
\* results concatenated; an exception of a fetch leaves the loop.
all_videos(channel_ids, responses) ==
    LET videos == [i \in 1..Len(channel_ids) |->
                      get_channel_videos(channel_ids[i], DefaultMaxResults,
                                         responses[i])]
    IN  IF \E i \in 1..Len(channel_ids) : videos[i].raised THEN Raise
        ELSE Return(Flatten([i \in 1..Len(channel_ids) |-> videos[i].value]))

\* A variant of available_videos that never filters.
available_videos_unfiltered(pool, last_id) == pool

\* get_random_sermon, lines 67-69: the pool without the last identifier, or the
\* whole pool when nothing else is left.
available_videos(pool, last_id) ==
    LET kept == SelectSeq(pool, LAMBDA v : Some(v.id) # last_id)
    IN  IF kept = <<>> THEN pool ELSE kept

\* A variant of Sermon that links through the short-link host.
Sermon_short_link(selected_video) ==
    [title |-> selected_video.title,
     url |-> <<"https://youtu.be/", selected_video.id>>,
     channel_title |-> selected_video.channel_title]

\* get_random_sermon, lines 74-78.
Sermon(selected_video) ==
    [title |-> selected_video.title,
     url |-> <<UrlPrefix, selected_video.id>>,
     channel_title |-> selected_video.channel_title]

\* A variant of get_random_sermon that forgets last_sermon_id when it finds no
\* video.
get_random_sermon_forgets(last_id, channel_ids, responses, choice) ==
    LET fetched == all_videos(channel_ids, responses)
    IN  IF fetched.raised \/ fetched.value = <<>>
        THEN [sermon |-> None, last_sermon_id |-> None]
        ELSE LET selected_video ==
                     available_videos(fetched.value, last_id)[choice]
             IN  [sermon |-> Some(Sermon(selected_video)),
                  last_sermon_id |-> Some(selected_video.id)]

\* A variant of get_random_sermon that returns None when the filter leaves
\* nothing, instead of falling back to the whole pool.
get_random_sermon_no_reset(last_id, channel_ids, responses, choice) ==
    LET fetched == all_videos(channel_ids, responses)
    IN  IF \/ fetched.raised
           \/ fetched.value = <<>>
           \/ SelectSeq(fetched.value, LAMBDA v : Some(v.id) # last_id) = <<>>
        THEN [sermon |-> None, last_sermon_id |-> last_id]
        ELSE LET selected_video ==
                     available_videos(fetched.value, last_id)[choice]
             IN  [sermon |-> Some(Sermon(selected_video)),
                  last_sermon_id |-> Some(selected_video.id)]

\* A variant of get_random_sermon that never records what it selected.
get_random_sermon_untracked(last_id, channel_ids, responses, choice) ==
    LET fetched == all_videos(channel_ids, responses)
    IN  IF fetched.raised \/ fetched.value = <<>>
        THEN [sermon |-> None, last_sermon_id |-> last_id]
        ELSE LET selected_video ==
                     available_videos(fetched.value, last_id)[choice]
             IN  [sermon |-> Some(Sermon(selected_video)),
                  last_sermon_id |-> last_id]

\* SermonEmailer.get_random_sermon with random.choice drawing position
\* `choice`: the sermon returned (None for an empty pool, and from the except
\* clause) and the value last_sermon_id has afterwards.
get_random_sermon(last_id, channel_ids, responses, choice) ==
    LET fetched == all_videos(channel_ids, responses)
    IN  IF fetched.raised \/ fetched.value = <<>>
        THEN [sermon |-> None, last_sermon_id |-> last_id]
        ELSE LET selected_video ==
                     available_videos(fetched.value, last_id)[choice]
             IN  [sermon |-> Some(Sermon(selected_video)),
                  last_sermon_id |-> Some(selected_video.id)]

\* The positions random.choice may draw.
Choices(channel_ids, responses, last_id) ==
    LET fetched == all_videos(channel_ids, responses)
    IN  IF fetched.raised \/ fetched.value = <<>> THEN {1}
        ELSE 1..Len(available_videos(fetched.value, last_id))

\* The aggregate pool a cycle saw (empty when a fetch raised).
PoolOf(channel_ids, responses) ==
    LET fetched == all_videos(channel_ids, responses)
    IN  IF fetched.raised THEN <<>> ELSE fetched.value

\* The identifiers of a list of videos.
IdsOf(videos) == {videos[i].id : i \in 1..Len(videos)}

NoCycle ==
    [trigger |-> "none", outcome |-> "none", fetches |-> 0, sends |-> 0,
     pool_size |-> 0, link |-> None, mail |-> None, fault |-> "none"]

\* What happens to one cycle from outside: an unexpected exception while the
\* fetched pool is filtered and drawn from (lines 62-71), or while the message
\* is formatted (lines 100-112), or else the answer of the mail provider.
CycleEvents ==
    {[fault |-> f, mail |-> None] : f \in {"selection", "formatting"}}
    \cup {[fault |-> "none", mail |-> Some(m)] : m \in MailResponses}

\* get_random_sermon, lines 58-59: the calls of get_channel_videos one cycle
\* makes.
fetch_calls(channel_ids) == Len([i \in 1..Len(channel_ids) |-> channel_ids[i]])

\* A variant of send_calls that sends a second time after a failure.
send_calls_retrying(sermon, fault, success) ==
    IF sermon = None \/ fault = "formatting" THEN 0
    ELSE IF success THEN 1 ELSE 2

\* send_daily_sermon, lines 95-97 and 115: the calls of send_email one cycle
\* makes.
send_calls(sermon, fault, success) ==
    IF sermon = None \/ fault = "formatting" THEN 0 ELSE 1

\* A variant of after_cycle without the except clause of send_daily_sermon.
after_cycle_uncaught(outcome) == IF outcome = "error" THEN "exit" ELSE "loop"

\* send_daily_sermon, lines 86 and 123-124, and run, lines 134-139: an
\* exception of the cycle is logged and the call returns, so run goes on to
\* the polling loop.
after_cycle(outcome) == "loop"

\* A variant of date_after_send that records the date whatever send_email
\* returned.
date_after_send_always(success, date, day) == Some(day)

\* send_daily_sermon, lines 117-121: last_sermon_date after send_email
\* returned.
date_after_send(success, date, day) == IF success THEN Some(day) ELSE date

\* send_daily_sermon past the date gate, lines 93-124, for given provider
\* answers, random draw and event. Each local value is bound once, as the one
\* element of a set.
dispatch(trigger, responses, choice, event) ==
    \E channel_ids \in {config[1].youtube_channel_ids} :
    \E pool \in {PoolOf(channel_ids, responses)} :
    \E got \in {IF event.fault = "selection"
                THEN [sermon |-> None, last_sermon_id |-> last_sermon_id]
                ELSE get_random_sermon(last_sermon_id, channel_ids, responses,
                                       choice)} :
    \E sent \in {IF event.mail = None THEN Raise
                 ELSE send_email(event.mail[1])} :
    \E success \in {~sent.raised /\ sent.value} :
    \E rich \in {Cardinality(IdsOf(pool)) >= 2} :
        /\ last_sermon_id' = got.last_sermon_id
        /\ richPools' = (richPools /\ rich)
        /\ IF got.sermon = None
           THEN /\ cycle' = [trigger |-> trigger, outcome |-> "no_sermon",
                             fetches |-> fetch_calls(channel_ids),
                             sends |-> send_calls(got.sermon, event.fault,
                                                  success),
                             pool_size |-> Len(pool), link |-> None,
                             mail |-> None,
                             fault |-> IF event.fault = "selection"
                                       THEN "selection" ELSE "none"]
                /\ UNCHANGED <<last_sermon_date, deliveredOn, prevDelivered>>
           ELSE IF event.fault = "formatting"
           THEN /\ cycle' = [trigger |-> trigger, outcome |-> "error",
                             fetches |-> fetch_calls(channel_ids),
                             sends |-> send_calls(got.sermon, event.fault,
                                                  success),
                             pool_size |-> Len(pool), link |-> None,
                             mail |-> None, fault |-> "formatting"]
                /\ UNCHANGED <<last_sermon_date, deliveredOn, prevDelivered>>
           ELSE /\ cycle' = [trigger |-> trigger,
                             outcome |-> IF sent.raised THEN "error"
                                         ELSE IF success THEN "sent"
                                         ELSE "failed",
                             fetches |-> fetch_calls(channel_ids),
                             sends |-> send_calls(got.sermon, event.fault,
                                                  success),
                             pool_size |-> Len(pool),
                             link |-> Some(got.sermon[1].url),
                             mail |-> event.mail, fault |-> "none"]
                /\ last_sermon_date' =
                      date_after_send(success, last_sermon_date, today)
                /\ IF success
                   THEN /\ deliveredOn' = deliveredOn \cup {today}
                        /\ prevDelivered' = Some(got.sermon[1].url[2])
                   ELSE UNCHANGED <<deliveredOn, prevDelivered>>

\* A variant of send_daily_sermon without the date gate.
send_daily_sermon_ungated(trigger) ==
    \E responses \in [1..Len(config[1].youtube_channel_ids) ->
                         ChannelResponses] :
    \E choice \in Choices(config[1].youtube_channel_ids, responses,
                          last_sermon_id) :
    \E event \in CycleEvents :
       dispatch(trigger, responses, choice, event)

\* SermonEmailer.send_daily_sermon: nothing when a sermon was already sent
\* today, otherwise select, format and send.
send_daily_sermon(trigger) ==
    IF last_sermon_date = Some(today)
    THEN /\ cycle' = [trigger |-> trigger, outcome |-> "skipped",
                      fetches |-> 0, sends |-> 0, pool_size |-> 0,
                      link |-> None, mail |-> None, fault |-> "none"]
         /\ UNCHANGED <<last_sermon_id, last_sermon_date, deliveredOn,
                        prevDelivered, richPools>>
    ELSE \E responses \in [1..Len(config[1].youtube_channel_ids) ->
                              ChannelResponses] :
         \E choice \in Choices(config[1].youtube_channel_ids, responses,
                               last_sermon_id) :
         \E event \in CycleEvents :
            dispatch(trigger, responses, choice, event)

\* __main__, line 143: SermonEmailer() builds the configuration and the
\* services; a ValueError of Config ends the process.
Construct ==
    /\ pc = "main"
    /\ IF Config(env).raised
       THEN /\ pc' = "exit"
            /\ exit_reason' = "error"
            /\ UNCHANGED config
       ELSE /\ pc' = "constructed"
            /\ config' = Some(Config(env).value)
            /\ UNCHANGED exit_reason
    /\ last_sermon_date' = None
    /\ last_sermon_id' = None
    /\ UNCHANGED <<env, scheduled, today, cycle, deliveredOn, prevDelivered,
                   richPools, sel, fetch>>

\* A variant of RunStartup that leaves the first cycle to the first tick.
RunStartup_deferred ==
    /\ pc = "constructed"
    /\ scheduled' = TRUE
    /\ pc' = "loop"
    /\ UNCHANGED <<env, exit_reason, config, today, last_sermon_id,
                   last_sermon_date, cycle, deliveredOn, prevDelivered,
                   richPools, sel, fetch>>

\* SermonEmailer.run, lines 128-134: register the job, then run one cycle at
\* once; an exception that left the cycle would end the process (__main__,
\* lines 147-148).
RunStartup ==
    /\ pc = "constructed"
    /\ scheduled' = TRUE
    /\ send_daily_sermon("startup")
    /\ pc' = after_cycle(cycle'.outcome)
    /\ exit_reason' = IF pc' = "exit" THEN "error" ELSE exit_reason
    /\ UNCHANGED <<env, config, today, sel, fetch>>

\* SermonEmailer.run, lines 137-139: one turn of the polling loop; run_pending
\* runs the job when its interval has elapsed.
LoopIteration ==
    /\ pc = "loop"
    /\ \E due \in BOOLEAN :
          IF due
          THEN /\ send_daily_sermon("tick")
               /\ pc' = after_cycle(cycle'.outcome)
               /\ exit_reason' = IF pc' = "exit" THEN "error" ELSE exit_reason
          ELSE UNCHANGED <<pc, exit_reason, last_sermon_id, last_sermon_date,
                           cycle, deliveredOn, prevDelivered, richPools>>
    /\ UNCHANGED <<env, config, scheduled, today, sel, fetch>>

\* The wall clock passes midnight.
Midnight ==
    /\ pc \in {"constructed", "loop"}
    /\ today < MaxDay
    /\ today' = today + 1
    /\ UNCHANGED <<env, pc, exit_reason, config, scheduled, last_sermon_id,
                   last_sermon_date, cycle, deliveredOn, prevDelivered,
                   richPools, sel, fetch>>

\* __main__, lines 145-146: the user interrupts the process.
Interrupt ==
    /\ pc \in {"main", "constructed", "loop"}
    /\ pc' = "exit"
    /\ exit_reason' = "interrupt"
    /\ UNCHANGED <<env, config, scheduled, today, last_sermon_id,
                   last_sermon_date, cycle, deliveredOn, prevDelivered,
                   richPools, sel, fetch>>

InitProc ==
    /\ env \in Environments
    /\ pc = "main"
    /\ exit_reason = "none"
    /\ config = None
    /\ scheduled = FALSE
    /\ today = 1
    /\ last_sermon_id = None
    /\ last_sermon_date = None
    /\ cycle = NoCycle
    /\ deliveredOn = {}
    /\ prevDelivered = None
    /\ richPools = TRUE

\* ------------------------------------- one call of get_random_sermon
\* Longest uploads playlist a channel holds when the selector is called alone.
MaxSelUploads == 2

SelResponses ==
    {[status |-> st, uploads |-> <<>>] :
        st \in {"not_found", "http_error", "error"}}
    \cup {[status |-> "ok", uploads |-> u] :
             u \in SeqsUpTo(VideoIds, MaxSelUploads)}

\* The channel lists the selector is called with.
SelChannels == {<<<<"U">>>>, <<<<"U">>, <<"V">>>>}

SelIdle ==
    [called |-> FALSE, channel_ids |-> <<>>, responses |-> <<>>,
     last_id |-> None, sermon |-> None, last_id_after |-> None]

\* A SermonEmailer whose last_sermon_id and whose providers' answers are drawn.
InitSelect ==
    \E channel_ids \in SelChannels :
    \E responses \in [1..Len(channel_ids) -> SelResponses] :
    \E last_id \in {None} \cup {Some(v) : v \in VideoIds} :
        sel = [called |-> FALSE, channel_ids |-> channel_ids,
               responses |-> responses, last_id |-> last_id,
               sermon |-> None, last_id_after |-> None]

\* get_random_sermon is called once.
SelectCall ==
    /\ ~sel.called
    /\ sel.channel_ids # <<>>
    /\ \E choice \in Choices(sel.channel_ids, sel.responses, sel.last_id) :
          LET got == get_random_sermon(sel.last_id, sel.channel_ids,
                                       sel.responses, choice)
          IN  sel' = [sel EXCEPT !.called = TRUE,
                                 !.sermon = got.sermon,
                                 !.last_id_after = got.last_sermon_id]
    /\ UNCHANGED <<procVars, fetch>>

\* ----------------------------- one call of get_channel_videos, by pages
\* Most page requests one call is followed through.
MaxRequests == 4

\* The values of max_results the source is called with, and the numbers of
\* uploads the provider holds for the channel.
MaxResultsValues == {0, 1, 50, 75}
UploadCounts == {0, 1, 49, 50, 51, 74, 75, 76, 130}

FetchIdle ==
    [pc |-> "idle", max_results |-> 0, uploads |-> 0, videos |-> <<>>,
     next_page_token |-> None, requests |-> 0, asked |-> 0, outcome |-> "none",
     result |-> <<>>]

\* The call starts: nothing fetched, no page token. The provider's playlist
\* holds the videos 1..uploads, and a page token is the position reached.
InitFetch ==
    \E max_results \in MaxResultsValues :
    \E uploads \in UploadCounts :
        fetch = [FetchIdle EXCEPT !.pc = "resolve",
                                  !.max_results = max_results,
                                  !.uploads = uploads]

\* get_channel_videos, lines 30-43: the channel resolves to its uploads
\* playlist, does not resolve (the empty list is returned), or the call raises
\* (an except clause returns the empty list).
FetchResolve ==
    /\ fetch.pc = "resolve"
    /\ \E answer \in {"ok", "not_found", "http_error", "error"} :
          fetch' = IF answer = "ok"
                   THEN [fetch EXCEPT !.pc = "loop"]
                   ELSE [fetch EXCEPT !.pc = "done", !.outcome = answer,
                                      !.result = <<>>]
    /\ UNCHANGED <<procVars, sel>>

\* get_channel_videos, lines 45-64: one turn of the while loop. The provider
\* answers a request for `asked` items with at most that many of the uploads
\* that remain, and with a next-page token whenever uploads remain after the
\* page (and possibly when none do); or the request raises.
FetchPage ==
    /\ fetch.pc = "loop"
    /\ Len(fetch.videos) < fetch.max_results
    /\ fetch.requests < MaxRequests
    /\ LET asked == page_size(fetch.max_results, Len(fetch.videos))
           cursor == IF fetch.next_page_token = None THEN 0
                     ELSE fetch.next_page_token[1]
           remaining == fetch.uploads - cursor
       IN  \/ \E k \in 0..Min(asked, remaining) :
              \E more \in BOOLEAN :
                 LET videos == fetch.videos \o [i \in 1..k |-> cursor + i]
                     next_page_token ==
                         IF remaining - k > 0 \/ more THEN Some(cursor + k)
                         ELSE None
                 IN  fetch' =
                        [fetch EXCEPT
                            !.videos = videos,
                            !.next_page_token = next_page_token,
                            !.requests = @ + 1,
                            !.asked = asked,
                            !.pc = IF next_page_token = None THEN "done"
                                   ELSE "loop",
                            !.outcome = IF next_page_token = None
                                        THEN "returned" ELSE @,
                            !.result = IF next_page_token = None THEN videos
                                       ELSE @]
           \/ \E failure \in {"http_error", "error"} :
                 fetch' = [fetch EXCEPT !.requests = @ + 1, !.asked = asked,
                                        !.pc = "done", !.outcome = failure,
                                        !.result = <<>>]
    /\ UNCHANGED <<procVars, sel>>

\* get_channel_videos, lines 45 and 66-67: the loop condition fails and the
\* videos are returned.
FetchReturn ==
    /\ fetch.pc = "loop"
    /\ ~(Len(fetch.videos) < fetch.max_results)
    /\ fetch' = [fetch EXCEPT !.pc = "done", !.outcome = "returned",
                              !.result = fetch.videos]
    /\ UNCHANGED <<procVars, sel>>

vars == <<procVars, sel, fetch>>

Init == InitProc /\ sel = SelIdle /\ fetch = FetchIdle

Next ==
    \/ Construct
    \/ RunStartup
    \/ LoopIteration
    \/ Midnight
    \/ Interrupt

Spec == Init /\ [][Next]_vars

\* The process parked while one function is followed alone.
Parked == InitProc /\ env = ValidEnvironment

\* The selector alone, on every drawn pool and exclusion identifier.
InitSelectAlone == Parked /\ InitSelect /\ fetch = FetchIdle

NextSelect == SelectCall

SpecSelect == InitSelectAlone /\ [][NextSelect]_vars

\* The channel video source alone, on every drawn cap and playlist length.
InitFetchAlone == Parked /\ sel = SelIdle /\ InitFetch

NextFetch ==
    \/ FetchResolve
    \/ FetchPage
    \/ FetchReturn

SpecFetch == InitFetchAlone /\ [][NextFetch]_vars

\* The process while nobody interrupts it.
NextRunning ==
    \/ Construct
    \/ RunStartup
    \/ LoopIteration
    \/ Midnight

\* The environments of the fairness check: every setting valid, one channel,
\* the interval set or left to its default.
FairEnvironments ==
    [YOUTUBE_API_KEY : {Some(<<"k">>)},
     YOUTUBE_CHANNEL_IDS : {Some(<<"U">>)},
     SENDGRID_API_KEY : {Some(<<"k">>)},
     SENDER_EMAIL : {Some(<<"a", "@", "b">>)},
     RECIPIENT_EMAIL : {Some(<<"a", "@", "b">>)},
     CHECK_INTERVAL_HOURS : {None, Some(<<"2">>)}]

\* A periodic tick that finds the date gate open, a non-empty pool and a
\* provider that accepts the email; such a tick leaves the process in the loop
\* with the date recorded.
GoodTick ==
    /\ pc = "loop"
    /\ last_sermon_date # Some(today)
    /\ UNCHANGED <<env, pc, exit_reason, config, scheduled, today, sel, fetch>>
    /\ last_sermon_date' = Some(today)
    /\ \E responses \in [1..Len(config[1].youtube_channel_ids) ->
                            ChannelResponses] :
          /\ PoolOf(config[1].youtube_channel_ids, responses) # <<>>
          /\ \E choice \in Choices(config[1].youtube_channel_ids, responses,
                                   last_sermon_id) :
                dispatch("tick", responses, choice,
                         [fault |-> "none",
                          mail |-> Some([raised |-> FALSE,
                                         status_code |-> Accepted])])

\* The process started in an environment of the fairness check.
InitFair == env \in FairEnvironments /\ Init

\* The running process under fair ticks: the loop never stops polling, and a
\* tick with a non-empty pool and an accepting provider cannot be put off for
\* ever.
FairSpec == InitFair /\ [][NextRunning]_vars /\ WF_vars(GoodTick)

\* ------------------------------------------------------------------ claims

\* C1: a cycle whose dispatch failed leaves the whole Selection State as it
\* was: last_sermon_id and last_sermon_date keep the values they had before
\* the cycle.
C1_FailedDispatchKeepsState ==
    [][cycle'.outcome = "failed" =>
          /\ last_sermon_id' = last_sermon_id
          /\ last_sermon_date' = last_sermon_date]_vars

\* C2: once last_sermon_date is today, a further call of send_daily_sermon on
\* that date fetches nothing, sends nothing and changes no Selection State,
\* and no day sees a second accepted email.
C2_SentTodayBlocks ==
    [][/\ last_sermon_date = Some(today) =>
             /\ cycle' # cycle =>
                   /\ cycle'.outcome = "skipped"
                   /\ cycle'.fetches = 0
                   /\ cycle'.sends = 0
             /\ last_sermon_id' = last_sermon_id
             /\ last_sermon_date' = last_sermon_date
             /\ deliveredOn' = deliveredOn
             /\ prevDelivered' = prevDelivered
       /\ cycle'.outcome = "sent" /\ cycle' # cycle => today \notin deliveredOn
       /\ Cardinality(deliveredOn') <= Cardinality(deliveredOn) + 1]_vars

\* C2, witness: a call made after today's email was accepted was skipped.
C2_Witness ==
    /\ cycle.outcome = "skipped"
    /\ last_sermon_date = Some(today)
    /\ today \in deliveredOn

\* C3: while every cycle's pool holds two distinct identifiers, an accepted
\* email never carries the video of the accepted email before it.
C3_NoImmediateRepeat ==
    [][(richPools' /\ deliveredOn' # deliveredOn /\ prevDelivered # None) =>
          prevDelivered' # prevDelivered]_vars

\* C5: after a failed dispatch the date gate is open, and under fair ticks a
\* failed dispatch is followed by an accepted email.
C5_FailureIsRetried ==
    /\ [](cycle.outcome = "failed" => last_sermon_date # Some(today))
    /\ [][(cycle.outcome = "failed" /\ cycle' # cycle) =>
             /\ cycle'.outcome # "skipped"
             /\ cycle'.fetches > 0
             /\ (cycle'.pool_size > 0 /\ cycle'.fault = "none") =>
                   cycle'.sends = 1]_vars
    /\ (cycle.outcome = "failed") ~> (cycle.outcome = "sent")

\* C5, witness: a tick's dispatch failed on a day without an accepted email,
\* after an email was accepted on an earlier day.
C5_Witness ==
    /\ cycle.outcome = "failed"
    /\ cycle.trigger = "tick"
    /\ today \notin deliveredOn
    /\ last_sermon_date # None

\* A "must hold" validation of the settings fails: an address without "@", or
\* an interval that is no positive integer.
MustHoldFails(e) ==
    \/ e["SENDER_EMAIL"] = None
    \/ ~\E i \in 1..Len(e["SENDER_EMAIL"][1]) : e["SENDER_EMAIL"][1][i] = "@"
    \/ e["RECIPIENT_EMAIL"] = None
    \/ ~\E i \in 1..Len(e["RECIPIENT_EMAIL"][1]) :
            e["RECIPIENT_EMAIL"][1][i] = "@"
    \/ e["CHECK_INTERVAL_HOURS"] \in
          {Some(<<"x">>), Some(<<"0">>), Some(<<"-", "2">>)}

\* C6: when a "must hold" validation fails, the job is never scheduled and no
\* cycle is attempted.
C6_InvalidSettingsNeverRun ==
    MustHoldFails(env) => ~scheduled /\ cycle = NoCycle

\* A required variable is unset or empty.
RequiredMissing(e) ==
    \E k \in EnvKeys \ {"CHECK_INTERVAL_HOURS"} :
        e[k] = None \/ e[k] = Some(<<>>)

\* C7: with a required variable unset or empty, construction fails: no
\* configuration exists, the job is never scheduled, no cycle runs, and the
\* process only ever ends.
C7_MissingSettingStopsStartup ==
    RequiredMissing(env) =>
        /\ config = None
        /\ ~scheduled
        /\ cycle = NoCycle
        /\ pc \in {"main", "exit"}

\* C7, witness: the process ended with a configuration error because the
\* recipient address is unset.
C7_Witness ==
    /\ env["RECIPIENT_EMAIL"] = None
    /\ \A k \in EnvKeys \ {"RECIPIENT_EMAIL", "CHECK_INTERVAL_HOURS"} :
          ~(env[k] = None \/ env[k] = Some(<<>>))
    /\ pc = "exit"
    /\ exit_reason = "error"

\* The identifier a returned sermon carries in its link.
SermonId(sermon) == sermon[1].url[2]

\* The videos the channels that answered hold, channel after channel.
AnsweredPool(channel_ids, responses) ==
    Flatten([i \in 1..Len(channel_ids) |->
                IF responses[i].status = "ok"
                THEN [k \in 1..Len(responses[i].uploads) |->
                         responses[i].uploads[k]]
                ELSE <<>>])

\* C4: called on a pool of two or more distinct identifiers that holds
\* last_sermon_id, get_random_sermon returns a video other than that one,
\* whatever random.choice draws.
C4_ExcludedNeverReturned ==
    (/\ sel.called
     /\ Cardinality(Range(AnsweredPool(sel.channel_ids, sel.responses))) >= 2
     /\ sel.last_id # None
     /\ sel.last_id[1] \in Range(AnsweredPool(sel.channel_ids, sel.responses)))
    => /\ sel.sermon # None
       /\ SermonId(sel.sermon) # sel.last_id[1]
       /\ sel.last_id_after # sel.last_id

\* C4, witness: the excluded identifier was in a pool of two identifiers and
\* the call returned the other one.
C4_Witness ==
    /\ sel.called
    /\ sel.last_id = Some("a")
    /\ Range(AnsweredPool(sel.channel_ids, sel.responses)) = {"a", "b"}
    /\ sel.sermon # None
    /\ SermonId(sel.sermon) = "b"

\* C9: a channel whose fetch fails or that does not resolve contributes
\* nothing and stops nothing: the sermon comes from the videos of the other
\* channels, and one is returned whenever another channel listed a video.
C9_FailedChannelContributesNothing ==
    (/\ sel.called
     /\ \E i \in 1..Len(sel.channel_ids) : sel.responses[i].status # "ok")
    => LET others == AnsweredPool(sel.channel_ids, sel.responses)
       IN  /\ others # <<>> => /\ sel.sermon # None
                               /\ SermonId(sel.sermon) \in Range(others)
           /\ others = <<>> => sel.sermon = None
           /\ [k \in 1..Len(PoolOf(sel.channel_ids, sel.responses)) |->
                  PoolOf(sel.channel_ids, sel.responses)[k].id] = others

\* C9, witness: of two channels one failed with a provider error, the other
\* listed videos, and a sermon was returned.
C9_Witness ==
    /\ sel.called
    /\ Len(sel.channel_ids) = 2
    /\ sel.responses[2].status = "http_error"
    /\ Len(sel.responses[1].uploads) = 2
    /\ sel.sermon # None

\* C10: a cycle that finds every channel empty returns no sermon, sends no
\* email and leaves last_sermon_id and last_sermon_date as they were, with the
\* date gate still open for the next tick.
C10_EmptyPoolChangesNothing ==
    [][(cycle' # cycle /\ cycle'.fetches > 0 /\ cycle'.pool_size = 0) =>
          /\ cycle'.outcome = "no_sermon"
          /\ cycle'.sends = 0
          /\ cycle'.link = None
          /\ last_sermon_id' = last_sermon_id
          /\ last_sermon_date' = last_sermon_date
          /\ deliveredOn' = deliveredOn
          /\ last_sermon_date' # Some(today')]_vars

\* C10, witness: after an accepted email on an earlier day, a cycle found the
\* pool empty.
C10_Witness ==
    /\ cycle.outcome = "no_sermon"
    /\ cycle.pool_size = 0
    /\ last_sermon_id # None
    /\ last_sermon_date # None

\* C8: against a provider whose pages never exceed the page limit nor the size
\* asked for, get_channel_videos returns at most max_results videos; it
\* returns only when the cap is reached or a page came without a token; it
\* asks for no page after one without a token; and a cap of 75 on a channel of
\* 75 or more uploads takes two page requests or more.
C8_PaginationStopsAtCapOrLastPage ==
    /\ Len(fetch.videos) <= fetch.max_results
    /\ fetch.pc = "done" => Len(fetch.result) <= fetch.max_results
    /\ (fetch.pc = "done" /\ fetch.outcome = "returned") =>
          /\ fetch.result = fetch.videos
          /\ \/ Len(fetch.videos) >= fetch.max_results
             \/ fetch.requests >= 1 /\ fetch.next_page_token = None
    /\ (fetch.pc = "loop" /\ fetch.requests >= 1) =>
          fetch.next_page_token # None
    /\ (/\ fetch.pc = "done"
        /\ fetch.outcome = "returned"
        /\ fetch.max_results = 75
        /\ fetch.uploads >= 75) => fetch.requests >= 2

\* C8, witness: a cap of 75 on a channel of 130 uploads was served by a page
\* of 50 and a page of 25.
C8_Witness ==
    /\ fetch.pc = "done"
    /\ fetch.outcome = "returned"
    /\ fetch.max_results = 75
    /\ fetch.uploads = 130
    /\ fetch.requests = 2
    /\ fetch.asked = 25
    /\ Len(fetch.result) = 75
    /\ fetch.next_page_token # None

\* C11: called on a non-empty pool whose every member has the exclusion
\* identifier, get_random_sermon drops the exclusion and returns a member of
\* the pool, never None.
C11_SoleMemberReturnedAnyway ==
    (/\ sel.called
     /\ AnsweredPool(sel.channel_ids, sel.responses) # <<>>
     /\ sel.last_id # None
     /\ Range(AnsweredPool(sel.channel_ids, sel.responses)) = {sel.last_id[1]})
    => /\ sel.sermon # None
       /\ SermonId(sel.sermon) = sel.last_id[1]
       /\ sel.last_id_after = sel.last_id

\* C11, witness: the pool's only video was the excluded one and the call
\* returned it.
C11_Witness ==
    /\ sel.called
    /\ sel.last_id = Some("a")
    /\ AnsweredPool(sel.channel_ids, sel.responses) = <<"a">>
    /\ sel.sermon # None
    /\ SermonId(sel.sermon) = "a"

\* C12: for every non-empty aggregate pool and every exclusion identifier,
\* none included, get_random_sermon returns a video of the pool, with that
\* video's title and channel title, and its link is the canonical watch prefix
\* followed by exactly that video's identifier.
C12_ReturnsPoolMemberWithCanonicalUrl ==
    (sel.called /\ AnsweredPool(sel.channel_ids, sel.responses) # <<>>)
    => /\ sel.sermon # None
       /\ Len(sel.sermon[1].url) = 2
       /\ sel.sermon[1].url[1] = "https://www.youtube.com/watch?v="
       /\ sel.sermon[1].url[2] \in
             Range(AnsweredPool(sel.channel_ids, sel.responses))
       /\ \E i \in 1..Len(sel.channel_ids) :
             /\ sel.responses[i].status = "ok"
             /\ sel.sermon[1].url[2] \in Range(sel.responses[i].uploads)
             /\ sel.sermon[1].title = <<"title", sel.sermon[1].url[2]>>
             /\ sel.sermon[1].channel_title =
                   <<"channel", sel.channel_ids[i]>>
       /\ sel.last_id_after = Some(sel.sermon[1].url[2])

\* C12, witness: without an exclusion identifier, a pool of two channels'
\* videos yielded the video of the second channel.
C12_Witness ==
    /\ sel.called
    /\ sel.last_id = None
    /\ Len(sel.channel_ids) = 2
    /\ sel.responses[1].status = "ok" /\ sel.responses[1].uploads = <<"a">>
    /\ sel.responses[2].status = "ok" /\ sel.responses[2].uploads = <<"b">>
    /\ sel.sermon # None
    /\ sel.sermon[1].url = <<"https://www.youtube.com/watch?v=", "b">>

\* C13: run performs one cycle at once on start: the polling loop is entered
\* only with the job registered and the startup cycle done, the first cycle
\* of the process is the startup cycle and is a full Dispatching cycle, and a
\* periodic tick fires only inside the loop, after it.
C13_StartupCycleBeforeLoop ==
    /\ [](pc = "loop" => scheduled /\ cycle # NoCycle)
    /\ [][(cycle = NoCycle /\ cycle' # cycle) =>
             /\ pc = "constructed"
             /\ pc' = "loop"
             /\ cycle'.trigger = "startup"
             /\ cycle'.outcome # "skipped"
             /\ cycle'.fetches = Len(config[1].youtube_channel_ids)]_vars
    /\ [][(cycle' # cycle /\ cycle'.trigger = "tick") =>
             /\ pc = "loop"
             /\ cycle # NoCycle]_vars
    /\ [][(cycle' # cycle /\ cycle'.trigger = "startup") => cycle = NoCycle]_vars

\* C13, witness: the loop is polling and the only cycle so far is the startup
\* cycle, whose email was accepted.
C13_Witness ==
    /\ pc = "loop"
    /\ cycle.trigger = "startup"
    /\ cycle.outcome = "sent"
    /\ deliveredOn = {1}

\* C14: send_email returns True exactly when the provider call completed and
\* answered 202: a cycle that called it ends "sent" on 202 and "failed" on
\* any other status and on an exception of the client, and never with an
\* exception of send_email reaching send_daily_sermon.
C14_SuccessIffAccepted ==
    cycle.mail # None =>
        /\ cycle.sends = 1
        /\ cycle.outcome \in {"sent", "failed"}
        /\ cycle.outcome = "sent" <=>
              (~cycle.mail[1].raised /\ cycle.mail[1].status_code = 202)
        /\ cycle.outcome = "failed" <=>
              (cycle.mail[1].raised \/ cycle.mail[1].status_code # 202)

\* C14, witness: the client raised during a send and the cycle ended as a
\* failed dispatch.
C14_Witness ==
    /\ cycle.mail # None
    /\ cycle.mail[1].raised
    /\ cycle.outcome = "failed"
    /\ cycle.sends = 1

\* C15: an unexpected exception inside a cycle does not leave it: the process
\* is in the polling loop afterwards, the next call of send_daily_sermon is a
\* full cycle, and under fair ticks an email is accepted later.
C15_CycleErrorIsContained ==
    /\ [][(cycle' # cycle /\
           (cycle'.fault # "none" \/ cycle'.outcome = "error")) =>
             /\ pc' = "loop"
             /\ exit_reason' = "none"
             /\ last_sermon_date' = last_sermon_date]_vars
    /\ [][(cycle.fault # "none" /\ cycle' # cycle) =>
             /\ pc = "loop"
             /\ cycle'.trigger = "tick"
             /\ cycle'.outcome # "skipped"
             /\ cycle'.fetches > 0]_vars
    /\ (cycle.fault # "none") ~> (cycle.outcome = "sent")

\* C15, witness: formatting raised in the startup cycle and the process is in
\* the polling loop.
C15_Witness ==
    /\ cycle.trigger = "startup"
    /\ cycle.outcome = "error"
    /\ cycle.fault = "formatting"
    /\ pc = "loop"

C17_EveryPageMakesProgress ==
    [][(fetch.pc = "loop" /\ fetch'.requests > fetch.requests) =>
          \/ Len(fetch'.videos) > Len(fetch.videos)
          \/ fetch'.pc = "done"]_vars

\* C18: whenever last_sermon_date is set, last_sermon_id is set, and when
\* last_sermon_date is assigned, last_sermon_id is the identifier of the video
\* in the email that was just accepted.
C18_DateImpliesTrackedId ==
    /\ [](last_sermon_date # None => last_sermon_id # None)
    /\ [][last_sermon_date' # last_sermon_date =>
             /\ cycle'.outcome = "sent"
             /\ cycle'.mail # None
             /\ cycle'.link # None
             /\ last_sermon_id' = Some(cycle'.link[1][2])
             /\ prevDelivered' = last_sermon_id'
             /\ last_sermon_date' = Some(today)]_vars

\* C18, witness: on the second day an email carrying "b" was accepted after
\* one carrying "a" the day before.
C18_Witness ==
    /\ last_sermon_date = Some(2)
    /\ deliveredOn = {1, 2}
    /\ last_sermon_id = Some("b")
    /\ cycle.outcome = "sent"

====
